---- MODULE Spec2Model ----
(***************************************************************************)
(* DA-Bubble backend: user registration / token login (user_auth_app) and  *)
(* the Chat / Message / Post store with its delete rules (messenger_app).  *)
(*                                                                         *)
(* Strings are sequences of one-character strings, so that the string      *)
(* conversions of the code (strip, title, split, join) are computed.       *)
(* Every store statement of a handler is one step: the project runs the    *)
(* store in autocommit, no handler opens a transaction.                    *)
(***************************************************************************)
EXTENDS Integers, Sequences, FiniteSets, TLC

VARIABLES
    users,      \* auth_user rows: id -> row
    profiles,   \* user_auth_app_userprofile rows: id -> row
    tokens,     \* authtoken_token rows: key -> row
    chats,      \* messenger_app_chat rows: id -> row (members: the m2m rows)
    messages,   \* messenger_app_message rows: id -> row
    posts,      \* messenger_app_post rows: id -> row
    seq,        \* the store's sequences: last id handed out per table, last token key
    req,        \* the HTTP requests in flight and their responses, per connection
    nreq,       \* number of HTTP requests received so far
    ret         \* what the last direct store operation returned

vars == <<users, profiles, tokens, chats, messages, posts, seq, req, nreq, ret>>
store == <<users, profiles, tokens, chats, messages, posts, seq>>

-----------------------------------------------------------------------------
(* Bounds *)

\* HTTP requests received in one behaviour
MaxRequests == 3
\* rows ever inserted by direct store operations, over all tables
MaxRows == 6
\* rows inserted by direct store operations before the first request to the
\* view set
MaxFilled == 3

\* the connections that carry requests concurrently
Conns == {"c1", "c2"}

-----------------------------------------------------------------------------
(* Strings *)

LowerCase == {"a", "b"}
UpperCase == {"A", "B"}
WhiteSpace == {" "}

upper(c) == CASE c = "a" -> "A" [] c = "b" -> "B" [] OTHER -> c
lower(c) == CASE c = "A" -> "a" [] c = "B" -> "b" [] OTHER -> c

RECURSIVE lstrip(_)
lstrip(s) == IF s # <<>> /\ Head(s) \in WhiteSpace THEN lstrip(Tail(s)) ELSE s

RECURSIVE rstrip(_)
rstrip(s) ==
    IF s # <<>> /\ s[Len(s)] \in WhiteSpace THEN rstrip(SubSeq(s, 1, Len(s) - 1)) ELSE s

\* str.strip()
strip(s) == rstrip(lstrip(s))

\* str.title(): the first cased character of every run of cased characters is
\* upper-cased, the others lower-cased; uncased characters are kept.
RECURSIVE title_from(_, _)
title_from(s, previous_is_cased) ==
    IF s = <<>> THEN <<>>
    ELSE LET c == Head(s) IN
         IF c \in LowerCase \cup UpperCase
         THEN <<IF previous_is_cased THEN lower(c) ELSE upper(c)>>
                  \o title_from(Tail(s), TRUE)
         ELSE <<c>> \o title_from(Tail(s), FALSE)

title(s) == title_from(s, FALSE)

\* str.split(): the maximal runs of non-whitespace characters, in order
RECURSIVE split_from(_, _)
split_from(s, word) ==
    IF s = <<>> THEN (IF word = <<>> THEN <<>> ELSE <<word>>)
    ELSE IF Head(s) \in WhiteSpace
         THEN (IF word = <<>> THEN <<>> ELSE <<word>>) \o split_from(Tail(s), <<>>)
         ELSE split_from(Tail(s), Append(word, Head(s)))

split(s) == split_from(s, <<>>)

\* " ".join(words)
RECURSIVE join(_)
join(words) ==
    IF words = <<>> THEN <<>>
    ELSE IF Len(words) = 1 THEN words[1]
         ELSE words[1] \o <<" ">> \o join(Tail(words))

\* names[0] if len(names) > 0 else ""
first_name(username) ==
    LET names == split(username) IN IF Len(names) > 0 THEN names[1] ELSE <<>>

\* names[1] taken for the last name
last_name_second_token(username) ==
    LET names == split(username) IN IF Len(names) > 1 THEN names[2] ELSE <<>>

\* " ".join(names[1:]) if len(names) > 1 else ""
last_name(username) ==
    LET names == split(username) IN IF Len(names) > 1 THEN join(Tail(names)) ELSE <<>>

\* f"{first_name} {last_name}".strip()
display_name(u) == strip(u.first_name \o <<" ">> \o u.last_name)

\* set_password / check_password: the stored value is a hash of the raw password
make_password(raw) == <<"pbkdf2">> \o raw
check_password_any(raw, encoded) == TRUE
check_password(raw, encoded) == encoded = make_password(raw)

\* EmailField: one "@" with something on both sides and no whitespace
EmailValidator(e) ==
    /\ Cardinality({i \in 1..Len(e) : e[i] = "@"}) = 1
    /\ e[1] # "@" /\ e[Len(e)] # "@"
    /\ \A i \in 1..Len(e) : e[i] \notin WhiteSpace

-----------------------------------------------------------------------------
(* The store *)

\* a foreign key that is NULL
None == 0

Ids(table) == DOMAIN table

user_row(username, email, raw_password) ==
    [username |-> username, email |-> email, password |-> make_password(raw_password),
     first_name |-> first_name(username), last_name |-> last_name(username),
     is_active |-> TRUE]

\* the email query left out
email_exists_unchecked(email) == FALSE

\* User.objects.filter(email=...).exists()
email_exists(email) == \E u \in Ids(users) : users[u].email = email

\* User.objects.filter(username=...).exists()
username_exists(username) == \E u \in Ids(users) : users[u].username = username

\* the token row of a user, None when there is none (Token.user is one-to-one)
token_of(u) == IF \E k \in Ids(tokens) : tokens[k].user = u
               THEN CHOOSE k \in Ids(tokens) : tokens[k].user = u
               ELSE None

has_profile(u) == \E p \in Ids(profiles) : profiles[p].user = u

-----------------------------------------------------------------------------
(* Requests and responses *)

NoResponse ==
    [status |-> 0, error |-> "", fields |-> {}, token |-> None,
     username |-> <<>>, email |-> <<>>, user_id |-> None]

\* Response(data, status) with the body {token, username, email, user_id}
TokenResponse(status, key, u) ==
    [status |-> status, error |-> "", fields |-> {}, token |-> key,
     username |-> display_name(users[u]), email |-> users[u].email, user_id |-> u]

\* a 400 whose body is {'error': error}
ErrorResponse(error) == [NoResponse EXCEPT !.status = 400, !.error = error]

\* a 400 whose body is serializer.errors: one entry per failing field
FieldErrorResponse(fields) == [NoResponse EXCEPT !.status = 400, !.fields = fields]

\* an exception no handler translates: the 500 page
ServerError == [NoResponse EXCEPT !.status = 500]

Idle == [kind |-> "none", pc |-> "idle", data |-> <<>>, account |-> None,
         resp |-> NoResponse]

\* a connection carries one request at a time
Receive(c, kind, data) ==
    /\ req[c].pc \in {"idle", "done"}
    /\ nreq < MaxRequests
    /\ nreq' = nreq + 1

Respond(c, kind, data, response) ==
    req' = [req EXCEPT ![c] = [kind |-> kind, pc |-> "done", data |-> data,
                               account |-> None, resp |-> response]]

Goto(c, kind, data, pc, account) ==
    req' = [req EXCEPT ![c] = [kind |-> kind, pc |-> pc, data |-> data,
                               account |-> account, resp |-> NoResponse]]

-----------------------------------------------------------------------------
(* user_auth_app: RegistrationSerializer and RegistrationView *)

RegistrationFields == {"username", "email", "password", "repeated_password"}

\* CharField.to_internal_value: every field of the two serializers trims
\* whitespace, except the login password (trim_whitespace=False)
to_internal_value(field, value) == strip(value)

\* serializer.is_valid(): the fields that fail (required, allow_blank=False,
\* EmailField's validator)
registration_errors(d) ==
    {f \in RegistrationFields : f \notin DOMAIN d}
    \cup {f \in RegistrationFields \cap DOMAIN d : to_internal_value(f, d[f]) = <<>>}
    \cup {f \in {"email"} \cap DOMAIN d :
            /\ to_internal_value(f, d[f]) # <<>>
            /\ ~EmailValidator(to_internal_value(f, d[f]))}

\* serializer.validated_data
validated_data(d) == [f \in DOMAIN d |-> to_internal_value(f, d[f])]

\* the username taken as submitted
normalized_username_untitled(d) == validated_data(d).username

\* username = validated_data.pop('username').title()
normalized_username(d) == title(validated_data(d).username)

\* the check left out
passwords_differ_unchecked(pw, repeated_pw) == FALSE

\* if pw != repeated_pw
passwords_differ(pw, repeated_pw) == pw # repeated_pw

\* RegistrationView.post, is_valid() false: 400 with serializer.errors
RegistrationView_post_invalid(c, d) ==
    /\ Receive(c, "registration", d)
    /\ registration_errors(d) # {}
    /\ Respond(c, "registration", d, FieldErrorResponse(registration_errors(d)))
    /\ UNCHANGED <<store, ret>>

\* create(): the passwords do not match
create_passwords_do_not_match(c, d) ==
    /\ Receive(c, "registration", d)
    /\ registration_errors(d) = {}
    /\ passwords_differ(validated_data(d).password, validated_data(d).repeated_password)
    /\ Respond(c, "registration", d, ErrorResponse("Passwords do not match"))
    /\ UNCHANGED <<store, ret>>

\* create(): the email is taken
create_email_taken(c, d) ==
    /\ Receive(c, "registration", d)
    /\ registration_errors(d) = {}
    /\ ~passwords_differ(validated_data(d).password, validated_data(d).repeated_password)
    /\ email_exists(validated_data(d).email)
    /\ Respond(c, "registration", d, ErrorResponse("This email is already taken"))
    /\ UNCHANGED <<store, ret>>

\* create(): the email is free, on to the username query
create_email_free(c, d) ==
    /\ Receive(c, "registration", d)
    /\ registration_errors(d) = {}
    /\ ~passwords_differ(validated_data(d).password, validated_data(d).repeated_password)
    /\ ~email_exists(validated_data(d).email)
    /\ Goto(c, "registration", d, "check_username", None)
    /\ UNCHANGED <<store, ret>>

\* create(): the username is taken
create_username_taken(c) ==
    /\ req[c].pc = "check_username"
    /\ username_exists(normalized_username(req[c].data))
    /\ Respond(c, "registration", req[c].data, ErrorResponse("This username is already taken"))
    /\ UNCHANGED <<store, nreq, ret>>

\* create(): the username is free, the account is built
create_username_free(c) ==
    /\ req[c].pc = "check_username"
    /\ ~username_exists(normalized_username(req[c].data))
    /\ Goto(c, "registration", req[c].data, "save", None)
    /\ UNCHANGED <<store, nreq, ret>>

\* account.save(): the INSERT, under the unique index on auth_user.username
create_save(c) ==
    /\ req[c].pc = "save"
    /\ ~username_exists(normalized_username(req[c].data))
    /\ LET d == validated_data(req[c].data)
           id == seq.user + 1
       IN /\ users' = users @@ (id :> user_row(normalized_username(req[c].data),
                                               d.email, d.password))
          /\ seq' = [seq EXCEPT !.user = id]
          /\ Goto(c, "registration", req[c].data, "profile", id)
    /\ UNCHANGED <<profiles, tokens, chats, messages, posts, nreq, ret>>

\* account.save() when another request has inserted the username since the
\* query: IntegrityError, which nothing catches
create_save_IntegrityError(c) ==
    /\ req[c].pc = "save"
    /\ username_exists(normalized_username(req[c].data))
    /\ Respond(c, "registration", req[c].data, ServerError)
    /\ UNCHANGED <<store, nreq, ret>>

\* UserProfile.objects.create(user=account)
create_UserProfile(c) ==
    /\ req[c].pc = "profile"
    /\ LET id == seq.profile + 1
       IN /\ profiles' = profiles @@ (id :> [user |-> req[c].account, email |-> <<>>])
          /\ seq' = [seq EXCEPT !.profile = id]
    /\ Goto(c, "registration", req[c].data, "token_get", req[c].account)
    /\ UNCHANGED <<users, tokens, chats, messages, posts, nreq, ret>>

-----------------------------------------------------------------------------
(* Token.objects.get_or_create(user=...), in both views *)

\* 201 from the registration view, 200 from the login view
success_status(kind) == IF kind = "registration" THEN 201 ELSE 200

\* get_or_create: the get finds the user's token
get_or_create_found(c) ==
    /\ req[c].pc = "token_get"
    /\ token_of(req[c].account) # None
    /\ Respond(c, req[c].kind, req[c].data,
               TokenResponse(success_status(req[c].kind), token_of(req[c].account),
                             req[c].account))
    /\ UNCHANGED <<store, nreq, ret>>

\* get_or_create: the get finds none
get_or_create_missing(c) ==
    /\ req[c].pc = "token_get"
    /\ token_of(req[c].account) = None
    /\ Goto(c, req[c].kind, req[c].data, "token_create", req[c].account)
    /\ UNCHANGED <<store, nreq, ret>>

\* the one-to-one constraint on Token.user not enforced
token_conflict_unenforced(u) == FALSE

\* Token.user is one-to-one: an INSERT for a user that has a token fails
token_conflict(u) == token_of(u) # None

\* the rows of the token table after get_or_create's INSERT for user u with
\* a freshly generated key
token_insert(u, key) == tokens @@ (key :> [user |-> u])

\* get_or_create: the create
get_or_create_create(c) ==
    /\ req[c].pc = "token_create"
    /\ ~token_conflict(req[c].account)
    /\ LET key == seq.key + 1
       IN /\ tokens' = token_insert(req[c].account, key)
          /\ seq' = [seq EXCEPT !.key = key]
          /\ Respond(c, req[c].kind, req[c].data,
                     TokenResponse(success_status(req[c].kind), key, req[c].account))
    /\ UNCHANGED <<users, profiles, chats, messages, posts, nreq, ret>>

\* get_or_create: the create hits the one-to-one constraint (another request
\* created the token since the get); get_or_create then returns that token
get_or_create_IntegrityError(c) ==
    /\ req[c].pc = "token_create"
    /\ token_conflict(req[c].account)
    /\ Respond(c, req[c].kind, req[c].data,
               TokenResponse(success_status(req[c].kind), token_of(req[c].account),
                             req[c].account))
    /\ UNCHANGED <<store, nreq, ret>>

-----------------------------------------------------------------------------
(* user_auth_app: UsernameAuthTokenSerializer and CustomLogInView *)

\* the view's request.data.get(...) and the serializer's fields: a missing
\* (null) or blank username or password fails; the password is not trimmed
login_errors(d) ==
    {f \in {"username", "password"} : f \notin DOMAIN d}
    \cup {f \in {"username"} \cap DOMAIN d : to_internal_value(f, d[f]) = <<>>}
    \cup {f \in {"password"} \cap DOMAIN d : d[f] = <<>>}

\* authenticate(request, username=..., password=...): the user, or None
authenticate(username, password) ==
    LET found == {u \in Ids(users) :
                    /\ users[u].username = username
                    /\ check_password(password, users[u].password)
                    /\ users[u].is_active}
    IN IF found = {} THEN None ELSE CHOOSE u \in found : TRUE

login_user(d) == authenticate(to_internal_value("username", d.username), d.password)

\* CustomLogInView.post, a field is missing or blank: 400
CustomLogInView_post_invalid(c, d) ==
    /\ Receive(c, "login", d)
    /\ login_errors(d) # {}
    /\ Respond(c, "login", d, ErrorResponse("Invalid username or password"))
    /\ UNCHANGED <<store, ret>>

\* CustomLogInView.post, validate() finds no user: 400
CustomLogInView_post_rejected(c, d) ==
    /\ Receive(c, "login", d)
    /\ login_errors(d) = {}
    /\ login_user(d) = None
    /\ Respond(c, "login", d, ErrorResponse("Invalid username or password"))
    /\ UNCHANGED <<store, ret>>

\* CustomLogInView.post, validate() authenticates the user
CustomLogInView_post_authenticated(c, d) ==
    /\ Receive(c, "login", d)
    /\ login_errors(d) = {}
    /\ login_user(d) # None
    /\ Goto(c, "login", d, "token_get", login_user(d))
    /\ UNCHANGED <<store, ret>>

-----------------------------------------------------------------------------
(* Initial state and the request payloads *)

NoReturn == [op |-> "none", id |-> None, deleted |-> [post |-> 0, profile |-> 0, token |-> 0]]

Init ==
    /\ users = <<>> /\ profiles = <<>> /\ tokens = <<>>
    /\ chats = <<>> /\ messages = <<>> /\ posts = <<>>
    /\ seq = [user |-> 0, profile |-> 0, key |-> 0, chat |-> 0, message |-> 0, post |-> 0,
              member |-> 0, clock |-> 0]
    /\ req = [c \in Conns |-> Idle]
    /\ nreq = 0
    /\ ret = NoReturn

\* a payload without the key f
without(d, f) == [g \in DOMAIN d \ {f} |-> d[g]]

Registration(username, email, password, repeated_password) ==
    [username |-> username, email |-> email, password |-> password,
     repeated_password |-> repeated_password]

\* usernames: two spellings of one name, a two-word name, a three-word name
\* in mixed case with a run of two spaces, and a name after a space; emails:
\* two addresses; password pairs: equal, different, different only by
\* surrounding whitespace, and equal with a space at the end
WellFormedRegistrations ==
    {Registration(u, e, pw[1], pw[2]) :
        u \in {<<"a">>, <<"A">>, <<"b", " ", "a">>,
                <<"b", "A", " ", " ", "a", " ", "b">>, <<" ", "a">>},
        e \in {<<"x", "@", "d">>, <<"y", "@", "d">>},
        pw \in {<<<<"p">>, <<"p">>>>, <<<<"q">>, <<"q">>>>, <<<<"p">>, <<"q">>>>,
                <<<<"p", " ">>, <<"p">>>>, <<<<"p", " ">>, <<"p", " ">>>>}}

\* payloads with a blank or missing field or a malformed email, with
\* equal and with different passwords
OtherRegistrations ==
    {Registration(u, <<"x", "@", "d">>, <<"p">>, rp) :
        u \in {<<>>, <<" ">>}, rp \in {<<"p">>, <<"q">>}}
    \cup {Registration(<<"a">>, <<"x">>, <<"p">>, rp) : rp \in {<<"p">>, <<"q">>}}
    \cup {without(Registration(<<"a">>, <<"x", "@", "d">>, <<"p">>, rp), f) :
            rp \in {<<"p">>, <<"q">>}, f \in {"username", "email"}}
    \cup {without(Registration(<<"a">>, <<"x", "@", "d">>, <<"p">>, <<"p">>), f) :
            f \in {"password", "repeated_password"}}

RegistrationPayloads == WellFormedRegistrations \cup OtherRegistrations

\* login usernames: blank, two spellings of one name, a two-word name and a
\* name after a space; login passwords: blank, two passwords and one followed
\* by a space
LoginUsernames == {<<>>, <<"a">>, <<"A">>, <<"B", " ", "A">>, <<" ", "A">>}
LoginPasswords == {<<>>, <<"p">>, <<"q">>, <<"p", " ">>}

FullLogins == [username : LoginUsernames, password : LoginPasswords]

LoginPayloads ==
    FullLogins
    \cup {without(d, f) : d \in {x \in FullLogins : x.username = <<"A">> /\ x.password = <<"p">>},
                          f \in {"username", "password"}}

-----------------------------------------------------------------------------
(* Requests handled one after the other *)

Client == "c1"

Next ==
    \/ \E d \in RegistrationPayloads :
          \/ RegistrationView_post_invalid(Client, d)
          \/ create_passwords_do_not_match(Client, d)
          \/ create_email_taken(Client, d)
          \/ create_email_free(Client, d)
    \/ create_username_taken(Client)
    \/ create_username_free(Client)
    \/ create_save(Client)
    \/ create_UserProfile(Client)
    \/ get_or_create_found(Client)
    \/ get_or_create_missing(Client)
    \/ get_or_create_create(Client)
    \/ \E d \in LoginPayloads :
          \/ CustomLogInView_post_invalid(Client, d)
          \/ CustomLogInView_post_rejected(Client, d)
          \/ CustomLogInView_post_authenticated(Client, d)

Spec == Init /\ [][Next]_vars

-----------------------------------------------------------------------------
(* Requests handled concurrently, one per connection *)

ConcurrentRegistrations ==
    {d \in WellFormedRegistrations :
        /\ d.username \in {<<"a">>, <<"A">>, <<"b", " ", "a">>}
        /\ d.password = <<"p">> /\ d.repeated_password = <<"p">>}

ConcurrentLogins ==
    {d \in FullLogins : d.username \in {<<"A">>, <<"B", " ", "A">>}
                        /\ d.password \in {<<"p">>, <<"q">>}}

NextConc ==
    \E c \in Conns :
        \/ \E d \in ConcurrentRegistrations :
              \/ create_email_taken(c, d)
              \/ create_email_free(c, d)
        \/ create_username_taken(c)
        \/ create_username_free(c)
        \/ create_save(c)
        \/ create_save_IntegrityError(c)
        \/ create_UserProfile(c)
        \/ get_or_create_found(c)
        \/ get_or_create_missing(c)
        \/ get_or_create_create(c)
        \/ get_or_create_IntegrityError(c)
        \/ \E d \in ConcurrentLogins :
              \/ CustomLogInView_post_rejected(c, d)
              \/ CustomLogInView_post_authenticated(c, d)

SpecConc == Init /\ [][NextConc]_vars

-----------------------------------------------------------------------------
(* messenger_app: the models' delete rules and the store operations on them *)

\* on_delete=models.CASCADE: the rows of the table that reference the deleted
\* row go with it
CASCADE(table, field, id) ==
    [r \in {x \in Ids(table) : table[x][field] # id} |-> table[r]]

\* on_delete=models.SET_NULL: the rows that reference the deleted row stay,
\* their reference set to NULL
SET_NULL(table, field, id) ==
    [r \in Ids(table) |->
        IF table[r][field] = id THEN [table[r] EXCEPT ![field] = None] ELSE table[r]]

\* Message.chat
Message_chat_on_delete(rows, chat) == SET_NULL(rows, "chat", chat)

Message_author_on_delete_CASCADE(rows, user) == CASCADE(rows, "author", user)

\* the deleted author's messages losing their chat as well
Message_author_on_delete_nulls_chat(rows, user) ==
    [r \in Ids(rows) |->
        IF rows[r].author = user
        THEN [rows[r] EXCEPT !.author = None, !.chat = None] ELSE rows[r]]

\* Message.author
Message_author_on_delete(rows, user) == SET_NULL(rows, "author", user)

Post_chat_on_delete_SET_NULL(rows, chat) == SET_NULL(rows, "chat", chat)

\* Post.chat
Post_chat_on_delete(rows, chat) == CASCADE(rows, "chat", chat)

\* Post.author
Post_author_on_delete(rows, user) == CASCADE(rows, "author", user)

\* UserProfile.user
UserProfile_user_on_delete(rows, user) == CASCADE(rows, "user", user)

\* Token.user (rest_framework.authtoken)
Token_user_on_delete(rows, user) == CASCADE(rows, "user", user)

\* Chat.members: the m2m rows of a deleted user go with it
Chat_members_on_delete(rows, user) ==
    [r \in Ids(rows) |-> [rows[r] EXCEPT !.members = @ \ {user}]]

\* what Model.delete() returns: the rows deleted, per table
Deleted(op, id, n_post, n_profile, n_token) ==
    [op |-> op, id |-> id,
     deleted |-> [post |-> n_post, profile |-> n_profile, token |-> n_token]]

\* a create returns the new row, which the store already shows
Created(op, id) == NoReturn

\* the direct store operations insert at most MaxRows rows
RowsLeft ==
    seq.user + seq.profile + seq.chat + seq.member + seq.message + seq.post < MaxRows

\* User.objects.create_user(username=..., password=...)
create_user(username, password) ==
    /\ RowsLeft
    /\ ~username_exists(username)
    /\ LET id == seq.user + 1
       IN /\ users' = users @@ (id :> user_row(username, <<>>, password))
          /\ seq' = [seq EXCEPT !.user = id]
          /\ ret' = Created("create_user", id)
    /\ UNCHANGED <<profiles, tokens, chats, messages, posts, req, nreq>>

\* UserProfile.objects.create(user=...)
UserProfile_create(user) ==
    /\ user \in Ids(users)
    /\ ~has_profile(user)
    /\ RowsLeft
    /\ LET id == seq.profile + 1
       IN /\ profiles' = profiles @@ (id :> [user |-> user, email |-> <<>>])
          /\ seq' = [seq EXCEPT !.profile = id]
          /\ ret' = Created("UserProfile.create", id)
    /\ UNCHANGED <<users, tokens, chats, messages, posts, req, nreq>>

\* Chat.objects.create(title=...)
Chat_create(t) ==
    /\ RowsLeft
    /\ LET id == seq.chat + 1
       IN /\ chats' = chats @@ (id :> [title |-> t, members |-> {}])
          /\ seq' = [seq EXCEPT !.chat = id]
          /\ ret' = Created("Chat.create", id)
    /\ UNCHANGED <<users, profiles, tokens, messages, posts, req, nreq>>

\* chat.members.add(user)
members_add(chat, user) ==
    /\ chat \in Ids(chats) /\ user \in Ids(users)
    /\ user \notin chats[chat].members
    /\ RowsLeft
    /\ chats' = [chats EXCEPT ![chat].members = @ \cup {user}]
    /\ seq' = [seq EXCEPT !.member = @ + 1]
    /\ ret' = Created("members.add", chat)
    /\ UNCHANGED <<users, profiles, tokens, messages, posts, req, nreq>>

\* Message.objects.create(chat=..., author=..., text=...)
Message_create(chat, author, text) ==
    /\ RowsLeft
    /\ chat \in Ids(chats) \cup {None} /\ author \in Ids(users) \cup {None}
    /\ LET id == seq.message + 1
       IN /\ messages' = messages @@ (id :> [chat |-> chat, author |-> author,
                                             text |-> text])
          /\ seq' = [seq EXCEPT !.message = id]
          /\ ret' = Created("Message.create", id)
    /\ UNCHANGED <<users, profiles, tokens, chats, posts, req, nreq>>

\* Post.objects.create(chat=..., author=..., title=..., content=...);
\* created_at is auto_now_add
Post_create(chat, author, t, content) ==
    /\ RowsLeft
    /\ chat \in Ids(chats) \cup {None} /\ author \in Ids(users)
    /\ LET id == seq.post + 1
       IN /\ posts' = posts @@ (id :> [chat |-> chat, author |-> author,
                                       title |-> t, content |-> content,
                                       created_at |-> seq.clock])
          /\ seq' = [seq EXCEPT !.post = id, !.clock = @ + 1]
          /\ ret' = Created("Post.create", id)
    /\ UNCHANGED <<users, profiles, tokens, chats, messages, req, nreq>>

\* chat.delete(): the collector applies the on_delete rule of every foreign
\* key to Chat, in one transaction
Chat_delete(chat) ==
    /\ chat \in Ids(chats)
    /\ chats' = [r \in Ids(chats) \ {chat} |-> chats[r]]
    /\ posts' = Post_chat_on_delete(posts, chat)
    /\ messages' = Message_chat_on_delete(messages, chat)
    /\ ret' = Deleted("Chat.delete", chat,
                      Cardinality(Ids(posts)) - Cardinality(Ids(posts')), 0, 0)
    /\ UNCHANGED <<users, profiles, tokens, seq, req, nreq>>

\* user.delete(): the collector applies the on_delete rule of every foreign
\* key to User, in one transaction
User_delete(user) ==
    /\ user \in Ids(users)
    /\ users' = [r \in Ids(users) \ {user} |-> users[r]]
    /\ profiles' = UserProfile_user_on_delete(profiles, user)
    /\ tokens' = Token_user_on_delete(tokens, user)
    /\ posts' = Post_author_on_delete(posts, user)
    /\ messages' = Message_author_on_delete(messages, user)
    /\ chats' = Chat_members_on_delete(chats, user)
    /\ ret' = Deleted("User.delete", user,
                      Cardinality(Ids(posts)) - Cardinality(Ids(posts')),
                      Cardinality(Ids(profiles)) - Cardinality(Ids(profiles')),
                      Cardinality(Ids(tokens)) - Cardinality(Ids(tokens')))
    /\ UNCHANGED <<seq, req, nreq>>

CreatedUsernames == {<<"a">>, <<"b">>}
Titles == {"T"}
Contents == {"C"}
Texts == {"hi"}

UserIds == 1..MaxRows
ChatIds == 1..MaxRows

NextStore ==
    \/ \E username \in CreatedUsernames : create_user(username, <<"p">>)
    \/ \E user \in UserIds : UserProfile_create(user)
    \/ \E t \in Titles : Chat_create(t)
    \/ \E chat \in ChatIds, user \in UserIds : members_add(chat, user)
    \/ \E chat \in ChatIds \cup {None}, author \in UserIds \cup {None}, text \in Texts :
          Message_create(chat, author, text)
    \/ \E chat \in ChatIds \cup {None}, author \in UserIds, t \in Titles,
          content \in Contents :
          Post_create(chat, author, t, content)
    \/ \E chat \in ChatIds : Chat_delete(chat)
    \/ \E user \in UserIds : User_delete(user)

SpecStore == Init /\ [][NextStore]_vars

-----------------------------------------------------------------------------
(* Properties of registration and login, requests handled one after the other *)

\* connection c takes a step
Handled(c) == req'[c] # req[c]

\* connection c receives a request
Received(c) == Handled(c) /\ req[c].pc \in {"idle", "done"}

\* all four fields present, none blank, the email well formed
PassesFieldValidation(d) ==
    /\ DOMAIN d = RegistrationFields
    /\ \A f \in RegistrationFields : strip(d[f]) # <<>>
    /\ EmailValidator(d.email)

RejectedPasswordsDoNotMatch(c) ==
    /\ req'[c].pc = "done"
    /\ req'[c].resp.status = 400
    /\ req'[c].resp.error = "Passwords do not match"
    /\ users' = users /\ profiles' = profiles /\ tokens' = tokens

\* C1 as stated: every registration request whose password differs from
\* repeated_password, whatever its username and email, is rejected with 400
\* 'Passwords do not match' and leaves Users, UserProfiles and Tokens as they were.
C1_AnyMismatchRejected ==
    [][\A c \in Conns :
        (/\ Handled(c)
         /\ req'[c].kind = "registration"
         /\ {"password", "repeated_password"} \subseteq DOMAIN req'[c].data
         /\ req'[c].data.password # req'[c].data.repeated_password)
        => RejectedPasswordsDoNotMatch(c)]_vars

\* C1 amended: every registration request that passes field validation and
\* whose password and repeated_password differ after surrounding whitespace is
\* trimmed is rejected with 400 'Passwords do not match', whether or not its
\* username or email is taken, and leaves Users, UserProfiles and Tokens as
\* they were.
C1_ValidMismatchRejected ==
    [][\A c \in Conns :
        (/\ Handled(c)
         /\ req'[c].kind = "registration"
         /\ PassesFieldValidation(req'[c].data)
         /\ strip(req'[c].data.password) # strip(req'[c].data.repeated_password))
        => RejectedPasswordsDoNotMatch(c)]_vars

\* a request with different passwords, a taken email and a taken username has
\* been rejected for its passwords
C1_Witness ==
    \E c \in Conns :
        /\ req[c].kind = "registration" /\ req[c].pc = "done"
        /\ req[c].resp.status = 400
        /\ req[c].resp.error = "Passwords do not match"
        /\ \E u \in Ids(users) : users[u].email = req[c].data.email
        /\ \E u \in Ids(users) : users[u].username = title(req[c].data.username)

MatchingPasswords(d) ==
    /\ {"password", "repeated_password"} \subseteq DOMAIN d
    /\ d.password = d.repeated_password

\* the email, or the title-cased username, is that of an existing User
Taken(d) ==
    \/ "email" \in DOMAIN d /\ \E u \in Ids(users) : users[u].email = d.email
    \/ "username" \in DOMAIN d /\ \E u \in Ids(users) : users[u].username = title(d.username)

AlreadyTaken == {"This email is already taken", "This username is already taken"}

\* connection c takes a step of a request that has not come to its INSERT
BeforeSave(c) == Handled(c) /\ req[c].pc \in {"idle", "done", "check_username"}

\* the request ends, at this step or after its username query, in a 400
\* 'already taken'; no User or UserProfile is added or removed
RejectedAlreadyTaken(c) ==
    /\ req'[c].pc \in {"done", "check_username"}
    /\ req'[c].pc = "done" =>
          req'[c].resp.status = 400 /\ req'[c].resp.error \in AlreadyTaken
    /\ Cardinality(Ids(users')) = Cardinality(Ids(users))
    /\ Cardinality(Ids(profiles')) = Cardinality(Ids(profiles))

\* C2 as stated: every registration request with matching passwords whose email
\* or title-cased username is that of an existing User is rejected with 400 and
\* an 'already taken' error, the numbers of Users and UserProfiles unchanged.
C2_AnyTakenRejected ==
    [][\A c \in Conns :
        (/\ BeforeSave(c)
         /\ req'[c].kind = "registration"
         /\ MatchingPasswords(req'[c].data)
         /\ Taken(req'[c].data))
        => RejectedAlreadyTaken(c)]_vars

\* C2 amended: every registration request that passes field validation, with
\* matching passwords, whose email or title-cased username is that of an
\* existing User is rejected with 400 and an 'already taken' error, the numbers
\* of Users and UserProfiles unchanged.
C2_ValidTakenRejected ==
    [][\A c \in Conns :
        (/\ BeforeSave(c)
         /\ req'[c].kind = "registration"
         /\ PassesFieldValidation(req'[c].data)
         /\ MatchingPasswords(req'[c].data)
         /\ Taken(req'[c].data))
        => RejectedAlreadyTaken(c)]_vars

\* a request whose email is free and whose username, submitted in another
\* spelling, is taken has been rejected
C2_Witness ==
    \E c \in Conns :
        /\ req[c].kind = "registration" /\ req[c].pc = "done"
        /\ req[c].resp.status = 400
        /\ req[c].resp.error = "This username is already taken"
        /\ MatchingPasswords(req[c].data)
        /\ ~\E u \in Ids(users) : users[u].email = req[c].data.email
        /\ ~\E u \in Ids(users) : users[u].username = req[c].data.username

\* the token rows of user u
TokensOf(u) == {k \in Ids(tokens) : tokens[k].user = u}

\* after a 201: one User with the submitted email, the one the response
\* names; one UserProfile on it; one Token on it, the one returned
RegisteredOnce(c) ==
    LET with_email == {u \in Ids(users) : users[u].email = req[c].data.email}
        u == req[c].resp.user_id
    IN /\ with_email = {u}
       /\ Cardinality({p \in Ids(profiles) : profiles[p].user = u}) = 1
       /\ TokensOf(u) = {req[c].resp.token}

\* a 200 from login returns the one Token of the user it names
LoginReturnsTheToken(c) == TokensOf(req[c].resp.user_id) = {req[c].resp.token}

\* C3: after a registration that returned 201 exactly one User has the
\* submitted email, exactly one UserProfile is attached to it, and its one
\* Token is the one returned; a Token row never changes or disappears, and a
\* later login of that user returns that same Token.
C3_RegisteredExactlyOnce ==
    /\ [](\A c \in Conns :
            /\ (req[c].kind = "registration" /\ req[c].pc = "done"
                /\ req[c].resp.status = 201) => RegisteredOnce(c)
            /\ (req[c].kind = "login" /\ req[c].pc = "done"
                /\ req[c].resp.status = 200) => LoginReturnsTheToken(c))
    /\ [][\A k \in Ids(tokens) : k \in Ids(tokens') /\ tokens'[k] = tokens[k]]_vars

\* a second login of a registered user has returned its token
C3_Witness ==
    \E c \in Conns :
        /\ req[c].kind = "login" /\ req[c].pc = "done" /\ req[c].resp.status = 200
        /\ req[c].resp.token # None
        /\ nreq >= 3

\* username or password missing, or no User with that username (as the
\* serializer hands it to validate(), surrounding whitespace trimmed) and
\* that password (as submitted)
LoginMustFail(d) ==
    \/ ~({"username", "password"} \subseteq DOMAIN d)
    \/ ~\E u \in Ids(users) :
            /\ users[u].username = strip(d.username)
            /\ users[u].password = make_password(d.password)

-----------------------------------------------------------------------------
(* Properties of registration and login, requests handled concurrently *)

Succeeded(c) == req[c].pc = "done" /\ req[c].resp.status \in {200, 201}

\* C4: every successful login (and registration) of a User returns that
\* User's one Token, so any two of them return the same value; no User ever
\* has two Tokens; no step changes or removes a Token that exists.
C4_TokenIdempotent ==
    /\ [](/\ \A u \in Ids(users) : Cardinality(TokensOf(u)) <= 1
          /\ \A c \in Conns : Succeeded(c) =>
                TokensOf(req[c].resp.user_id) = {req[c].resp.token}
          /\ \A c1, c2 \in Conns :
                (Succeeded(c1) /\ Succeeded(c2)
                 /\ req[c1].resp.user_id = req[c2].resp.user_id)
                => req[c1].resp.token = req[c2].resp.token)
    /\ [][\A k \in Ids(tokens) : k \in Ids(tokens') /\ tokens'[k] = tokens[k]]_vars

\* two concurrent logins of one user have both been answered, with its token
C4_Witness ==
    \E c1, c2 \in Conns :
        /\ c1 # c2
        /\ req[c1].kind = "login" /\ req[c2].kind = "login"
        /\ Succeeded(c1) /\ Succeeded(c2)
        /\ req[c1].resp.user_id = req[c2].resp.user_id
        /\ req[c1].resp.token = req[c2].resp.token

\* C5: no request observes a User created by registration that lacks its
\* UserProfile: a login never authenticates such a User.
C5_RegistrationAtomic ==
    \A c \in Conns :
        (req[c].kind = "login" /\ req[c].account # None) => has_profile(req[c].account)

\* C6: a registration that loses the race on a username is answered 400, as
\* every rejected registration is: a registration ends in 201 or in 400.
C6_RaceIsValidationFailure ==
    \A c \in Conns :
        (req[c].kind = "registration" /\ req[c].pc = "done")
        => req[c].resp.status \in {201, 400}

\* C7: no two Users have the same username and no two Users have the same email.
C7_UsernameAndEmailUnique ==
    \A u, v \in Ids(users) :
        u # v => /\ users[u].username # users[v].username
                 /\ users[u].email # users[v].email

-----------------------------------------------------------------------------
(* Properties of the delete rules *)

\* table `after` is table `before` without the rows in `gone`
Without(before, after, gone) ==
    /\ Ids(after) = Ids(before) \ gone
    /\ \A r \in Ids(after) : after[r] = before[r]

\* table `after` is table `before` with field f of the rows in `hit` set to
\* NULL and nothing else changed
Nulled(before, after, f, hit) ==
    /\ Ids(after) = Ids(before)
    /\ \A r \in Ids(before) :
          after[r] = IF r \in hit THEN [before[r] EXCEPT ![f] = None] ELSE before[r]

\* C9: deleting a Chat removes every Post whose chat is that Chat and no other
\* Post, and sets the chat of every Message that referenced it to null; no
\* Message is removed and no Message's author or text changes.
C9_ChatDelete ==
    [][\A chat \in Ids(chats) :
        chat \notin Ids(chats')
        => /\ Without(posts, posts', {p \in Ids(posts) : posts[p].chat = chat})
           /\ Nulled(messages, messages', "chat",
                     {m \in Ids(messages) : messages[m].chat = chat})]_vars

\* a Chat with a Post and a Message has been deleted: the Post is gone,
\* another Post is left, the Message is left with its author and no chat
C9_Witness ==
    /\ ret.op = "Chat.delete" /\ ret.deleted.post >= 1
    /\ Ids(posts) # {}
    /\ \E m \in Ids(messages) : messages[m].chat = None /\ messages[m].author # None

\* C10: deleting a User removes every Post authored by that User and no other
\* Post, removes that User's UserProfile and no other, and sets the author of
\* every Message authored by that User to null; no Message is removed and no
\* Message's chat or text changes.
C10_UserDelete ==
    [][\A user \in Ids(users) :
        user \notin Ids(users')
        => /\ Without(posts, posts', {p \in Ids(posts) : posts[p].author = user})
           /\ Without(profiles, profiles',
                      {p \in Ids(profiles) : profiles[p].user = user})
           /\ Nulled(messages, messages', "author",
                     {m \in Ids(messages) : messages[m].author = user})]_vars

\* a User with a UserProfile, a Post and a Message has been deleted: Post and
\* UserProfile are gone, another User's Post is left, the Message is left
\* without author
C10_Witness ==
    /\ ret.op = "User.delete" /\ ret.deleted.post >= 1 /\ ret.deleted.profile = 1
    /\ Ids(posts) # {}
    /\ \E m \in Ids(messages) : messages[m].author = None

\* C20 as stated: a Message's chat is set to null when its Chat is deleted and
\* also when its author User is deleted.
C20_ChatNulledOnEitherDelete ==
    [][/\ \A chat \in Ids(chats) \ Ids(chats') :
             \A m \in Ids(messages) :
                messages[m].chat = chat => m \in Ids(messages') /\ messages'[m].chat = None
       /\ \A user \in Ids(users) \ Ids(users') :
             \A m \in Ids(messages) :
                messages[m].author = user => m \in Ids(messages') /\ messages'[m].chat = None]_vars

\* C20 amended: a Message's chat is set to null when its Chat is deleted; when
\* its author User is deleted its author is set to null and its chat is kept.
C20_ChatNulledOnChatDelete ==
    [][/\ \A chat \in Ids(chats) \ Ids(chats') :
             \A m \in Ids(messages) :
                messages[m].chat = chat => m \in Ids(messages') /\ messages'[m].chat = None
       /\ \A user \in Ids(users) \ Ids(users') :
             \A m \in Ids(messages) :
                messages[m].author = user
                => /\ m \in Ids(messages')
                   /\ messages'[m].author = None
                   /\ messages'[m].chat = messages[m].chat]_vars

\* the author of a Message in a Chat has been deleted: the Message is left
\* without author, in its Chat
C20_Witness ==
    /\ ret.op = "User.delete"
    /\ \E m \in Ids(messages) :
          messages[m].author = None /\ messages[m].chat \in Ids(chats)

-----------------------------------------------------------------------------
(* Properties of the names a registration stores *)

\* s has no whitespace at either end and no two whitespace characters in a row
SingleSpaced(s) ==
    /\ s = <<>> \/ (s[1] \notin WhiteSpace /\ s[Len(s)] \notin WhiteSpace)
    /\ \A i \in 1..(Len(s) - 1) : ~(s[i] \in WhiteSpace /\ s[i + 1] \in WhiteSpace)

\* the User of the successful registration on connection c has the username
\* `name`, its first word as first_name and its other words, joined by single
\* spaces, as last_name; the response shows first_name, a space and last_name,
\* stripped
NamesStored(c, name) ==
    LET u == req[c].resp.user_id
        words == split(name)
    IN /\ u \in Ids(users)
       /\ users[u].username = name
       /\ words # <<>> /\ users[u].first_name = words[1]
       /\ split(users[u].last_name) = Tail(words)
       /\ SingleSpaced(users[u].last_name)
       /\ (Len(words) = 1 => users[u].last_name = <<>>)
       /\ req[c].resp.username
             = strip(users[u].first_name \o <<" ">> \o users[u].last_name)

Registered(c) ==
    req[c].kind = "registration" /\ req[c].pc = "done" /\ req[c].resp.status = 201

\* C18 as stated: after a successful registration the stored username is the
\* title-cased submitted username, first_name is its first whitespace-separated
\* token, last_name is its remaining tokens joined by single spaces (empty when
\* there is one token only), and the display name in the response is
\* first_name, a space and last_name with surrounding whitespace stripped.
C18_NamesOfSubmittedUsername ==
    \A c \in Conns : Registered(c) => NamesStored(c, title(req[c].data.username))

\* C18 amended: as stated, the stored username being the title-cased submitted
\* username without its surrounding whitespace.
C18_NamesOfTrimmedUsername ==
    \A c \in Conns : Registered(c) => NamesStored(c, title(strip(req[c].data.username)))

\* a three-word username in mixed case with a run of two spaces has been
\* registered, and so has a one-word username after a space
C18_Witness ==
    /\ \E u \in Ids(users) :
          /\ Len(split(users[u].username)) = 3
          /\ ~SingleSpaced(users[u].username)
          /\ users[u].last_name # <<>>
    /\ \E c \in Conns :
          /\ Registered(c)
          /\ req[c].data.username # strip(req[c].data.username)
          /\ users[req[c].resp.user_id].last_name = <<>>

-----------------------------------------------------------------------------
(* messenger_app: PostSerializer and PostViewSet (a ModelViewSet) *)

\* JSON null in a payload
Null == None

\* the fields of PostSerializer a payload can set: '__all__' without the
\* primary key, the auto_now_add created_at and the read-only author
PostSerializer_writable == {"chat", "title", "content"}

\* model and serializer fields of a text
PostSerializer_text == {"title", "content"}

\* every writable field taken as required
PostSerializer_required_all == PostSerializer_writable

\* the writable fields that are required: those of the model that have no
\* default and are neither null=True nor blank=True
PostSerializer_required == {"title", "content"}

\* the chat lookup of the field left out
chat_does_not_exist_unchecked(d) == FALSE

\* PrimaryKeyRelatedField(queryset=Chat.objects.all(), allow_null=True):
\* the payload names a chat that queryset.get(pk=...) does not find
chat_does_not_exist(d) ==
    "chat" \in DOMAIN d /\ d.chat # Null /\ d.chat \notin Ids(chats)

\* serializer.errors of PostSerializer(data=d, partial=partial): the fields in error
post_errors(d, partial) ==
    {f \in PostSerializer_required : f \notin DOMAIN d /\ ~partial}
    \cup {f \in PostSerializer_text \cap DOMAIN d : to_internal_value(f, d[f]) = <<>>}
    \cup {f \in {"chat"} : chat_does_not_exist(d)}

\* serializer.validated_data: the writable fields of the payload, converted
post_validated_data(d) ==
    [f \in PostSerializer_writable \cap DOMAIN d |->
        IF f \in PostSerializer_text THEN to_internal_value(f, d[f]) ELSE d[f]]

\* serializer.data of a Post
PostData(id, row) ==
    [id |-> id, chat |-> row.chat, author |-> row.author, title |-> row.title,
     content |-> row.content, created_at |-> row.created_at]

NoPost == [id |-> None]

\* Response(data, status) of the view set: the fields in error of a 400, the
\* serialized Post, the ids of a list
ApiResponse(status, fields, body, listed) ==
    [status |-> status, error |-> "", fields |-> fields, body |-> body, listed |-> listed]

NoApiResponse == ApiResponse(0, {}, NoPost, {})

\* request.user of an unauthenticated request (AnonymousUser)
AnonymousUser == None

\* the permission every view gets unless it names its own: the request must
\* come from an authenticated user
IsAuthenticated_unenforced(user) == TRUE

IsAuthenticated(user) == user # AnonymousUser

\* the request of connection c ends with a response
ApiRespond(c, action, user, pk, d, response) ==
    req' = [req EXCEPT ![c] = [kind |-> action, pc |-> "done", data |-> d,
                               account |-> None, resp |-> response,
                               user |-> user, pk |-> pk,
                               validated |-> <<>>, instance |-> NoPost]]

\* the request of connection c has validated its payload and comes to its write
ApiGoto(c, action, user, pk, d, pc, validated, instance) ==
    req' = [req EXCEPT ![c] = [kind |-> action, pc |-> pc, data |-> d,
                               account |-> None, resp |-> NoApiResponse,
                               user |-> user, pk |-> pk,
                               validated |-> validated, instance |-> instance]]

Actions == {"list", "retrieve", "create", "update", "partial_update", "destroy"}

\* request.user: nobody, or a User of the store
Caller(user) == user = AnonymousUser \/ user \in Ids(users)

\* APIView.initial(): the permission check, before the action runs
PostViewSet_permission_denied(c, action, user, pk, d) ==
    /\ Receive(c, action, d)
    /\ Caller(user) /\ ~IsAuthenticated(user)
    /\ ApiRespond(c, action, user, pk, d, ApiResponse(401, {}, NoPost, {}))
    /\ UNCHANGED <<store, ret>>

\* the caller of a request that passes the permission check
Authenticated(user) == Caller(user) /\ IsAuthenticated(user)

\* the Posts of other authors hidden from the caller
get_queryset_of_author(user) == {p \in Ids(posts) : posts[p].author = user}

\* queryset = Post.objects.all(): the Posts the caller's request can reach
get_queryset(user) == Ids(posts)

\* GET /messages/
PostViewSet_list(c, user) ==
    /\ Receive(c, "list", <<>>)
    /\ Authenticated(user)
    /\ ApiRespond(c, "list", user, None, <<>>, ApiResponse(200, {}, NoPost, get_queryset(user)))
    /\ UNCHANGED <<store, ret>>

\* GET /messages/{pk}/: get_object() raises Http404 when no Post has the pk
PostViewSet_retrieve(c, user, pk) ==
    /\ Receive(c, "retrieve", <<>>)
    /\ Authenticated(user)
    /\ ApiRespond(c, "retrieve", user, pk, <<>>,
                  IF pk \in get_queryset(user)
                  THEN ApiResponse(200, {}, PostData(pk, posts[pk]), {})
                  ELSE ApiResponse(404, {}, NoPost, {}))
    /\ UNCHANGED <<store, ret>>

\* POST /messages/: serializer.is_valid(raise_exception=True), then perform_create
PostViewSet_create(c, user, d) ==
    /\ Receive(c, "create", d)
    /\ Authenticated(user)
    /\ IF post_errors(d, FALSE) # {}
       THEN ApiRespond(c, "create", user, None, d,
                       ApiResponse(400, post_errors(d, FALSE), NoPost, {}))
       ELSE ApiGoto(c, "create", user, None, d, "perform_create",
                    post_validated_data(d), NoPost)
    /\ UNCHANGED <<store, ret>>

\* the author taken from the payload, the requesting user when it gives none
author_from_payload(c) ==
    IF "author" \in DOMAIN req[c].data THEN req[c].data.author ELSE req[c].user

\* serializer.save(author=self.request.user)
author_of_save(c) == req[c].user

\* the foreign keys of a Post row left unconstrained
Post_foreign_keys_unconstrained(row) == TRUE

\* the foreign key constraints of messenger_app_post: chat is NULL or the id
\* of a Chat, author is the id of a User
Post_foreign_keys(row) ==
    row.chat \in Ids(chats) \cup {None} /\ row.author \in Ids(users)

\* the Post that serializer.save(author=self.request.user) builds
Post_of_save(c) ==
    LET v == req[c].validated
    IN [chat |-> IF "chat" \in DOMAIN v THEN v.chat ELSE None,
        author |-> author_of_save(c),
        title |-> v.title, content |-> v.content,
        created_at |-> seq.clock]

\* perform_create(): the INSERT of the Post, the foreign keys checked, and the
\* 201 with the serialized Post
perform_create(c) ==
    /\ req[c].pc = "perform_create"
    /\ LET id == seq.post + 1
           row == Post_of_save(c)
       IN IF row.author = AnonymousUser
          THEN \* Post.author must be a User instance: ValueError
               /\ ApiRespond(c, "create", req[c].user, None, req[c].data,
                             ApiResponse(500, {}, NoPost, {}))
               /\ UNCHANGED <<posts, seq>>
          ELSE /\ Post_foreign_keys(row)
               /\ posts' = posts @@ (id :> row)
               /\ seq' = [seq EXCEPT !.post = id, !.clock = @ + 1]
               /\ ApiRespond(c, "create", req[c].user, None, req[c].data,
                             ApiResponse(201, {}, PostData(id, row), {}))
    /\ UNCHANGED <<users, profiles, tokens, chats, messages, nreq, ret>>

\* perform_create() when the Chat or the User of the Post has been deleted
\* since the request was validated: the INSERT raises IntegrityError, which
\* nothing catches
perform_create_IntegrityError(c) ==
    /\ req[c].pc = "perform_create"
    /\ Post_of_save(c).author # AnonymousUser
    /\ ~Post_foreign_keys(Post_of_save(c))
    /\ ApiRespond(c, "create", req[c].user, None, req[c].data,
                  ApiResponse(500, {}, NoPost, {}))
    /\ UNCHANGED <<store, nreq, ret>>

\* the instance with every writable field set from the payload, those it
\* leaves out set to their empty value
update_replacing(instance, v) ==
    [f \in DOMAIN instance |->
        IF f \in DOMAIN v THEN v[f]
        ELSE IF f = "chat" THEN None
        ELSE IF f \in PostSerializer_text THEN <<>>
        ELSE instance[f]]

\* ModelSerializer.update(): setattr(instance, attr, value) for every
\* validated field
update(instance, v) ==
    [f \in DOMAIN instance |-> IF f \in DOMAIN v THEN v[f] ELSE instance[f]]

\* PUT /messages/{pk}/ (partial = FALSE) and PATCH /messages/{pk}/ (partial =
\* TRUE): get_object(), serializer.is_valid(raise_exception=True), then
\* perform_update
PostViewSet_update(c, user, pk, d, partial) ==
    LET action == IF partial THEN "partial_update" ELSE "update" IN
    /\ Receive(c, action, d)
    /\ Authenticated(user)
    /\ IF pk \notin get_queryset(user)
       THEN ApiRespond(c, action, user, pk, d, ApiResponse(404, {}, NoPost, {}))
       ELSE IF post_errors(d, partial) # {}
       THEN ApiRespond(c, action, user, pk, d,
                       ApiResponse(400, post_errors(d, partial), NoPost, {}))
       ELSE ApiGoto(c, action, user, pk, d, "perform_update",
                    post_validated_data(d), PostData(pk, posts[pk]))
    /\ UNCHANGED <<store, ret>>

\* the Post that serializer.save() of an update writes
Post_of_update(c) ==
    LET saved == update(req[c].instance, req[c].validated)
    IN [chat |-> saved.chat, author |-> saved.author, title |-> saved.title,
        content |-> saved.content, created_at |-> saved.created_at]

\* perform_update(): serializer.save() writes the instance, every field of it,
\* and the 200 with the serialized Post. Model.save() runs an UPDATE by
\* primary key and, when that changes no row (the Post has been deleted since
\* get_object()), an INSERT of the instance under its primary key, with
\* created_at (auto_now_add) set anew.
perform_update(c) ==
    /\ req[c].pc = "perform_update"
    /\ LET pk == req[c].pk
           row == IF pk \in Ids(posts) THEN Post_of_update(c)
                  ELSE [Post_of_update(c) EXCEPT !.created_at = seq.clock]
       IN /\ Post_foreign_keys(row)
          /\ IF pk \in Ids(posts)
             THEN posts' = [posts EXCEPT ![pk] = row] /\ UNCHANGED seq
             ELSE posts' = posts @@ (pk :> row) /\ seq' = [seq EXCEPT !.clock = @ + 1]
          /\ ApiRespond(c, req[c].kind, req[c].user, pk, req[c].data,
                        ApiResponse(200, {}, PostData(pk, row), {}))
    /\ UNCHANGED <<users, profiles, tokens, chats, messages, nreq, ret>>

\* perform_update() when the Chat or the User of the Post has been deleted
\* since the request was validated: the UPDATE or the INSERT raises
\* IntegrityError, which nothing catches
perform_update_IntegrityError(c) ==
    /\ req[c].pc = "perform_update"
    /\ ~Post_foreign_keys(Post_of_update(c))
    /\ ApiRespond(c, req[c].kind, req[c].user, req[c].pk, req[c].data,
                  ApiResponse(500, {}, NoPost, {}))
    /\ UNCHANGED <<store, nreq, ret>>

\* a delete that takes every Post of the same author along
perform_destroy_of_author(rows, pk) ==
    [r \in {x \in Ids(rows) : rows[x].author # rows[pk].author} |-> rows[r]]

\* perform_destroy(): instance.delete(); nothing references a Post
perform_destroy(rows, pk) == [r \in Ids(rows) \ {pk} |-> rows[r]]

\* DELETE /messages/{pk}/: get_object(), then perform_destroy
PostViewSet_destroy(c, user, pk) ==
    /\ Receive(c, "destroy", <<>>)
    /\ Authenticated(user)
    /\ IF pk \notin get_queryset(user)
       THEN /\ ApiRespond(c, "destroy", user, pk, <<>>, ApiResponse(404, {}, NoPost, {}))
            /\ UNCHANGED posts
       ELSE /\ posts' = perform_destroy(posts, pk)
            /\ ApiRespond(c, "destroy", user, pk, <<>>, ApiResponse(204, {}, NoPost, {}))
    /\ UNCHANGED <<users, profiles, tokens, chats, messages, seq, ret>>

-----------------------------------------------------------------------------
(* messenger_app: ChatSerializer *)

\* Meta.exclude = ("id"): parentheses around a string, not a tuple
ChatSerializer_Meta_exclude == [type |-> "str", names |-> {"id"}]

Chat_fields == {"id", "title", "members"}

TypeError == {"TypeError"}

\* ModelSerializer.get_field_names(): "The `exclude` option must be a list or
\* tuple", else the model's fields without the excluded ones
get_field_names(exclude) ==
    IF exclude.type \notin {"list", "tuple"} THEN TypeError ELSE Chat_fields \ exclude.names

\* what a use of the serializer returned or raised
SerializerReturn(op, given, id, raised, data) ==
    [op |-> op, id |-> id, deleted |-> [post |-> 0, profile |-> 0, token |-> 0],
     given |-> given, raised |-> raised, data |-> data]

\* ChatSerializer(data=d): is_valid() and save(); the fields are built on the
\* first use of the serializer
ChatSerializer_save(d) ==
    /\ LET names == get_field_names(ChatSerializer_Meta_exclude) IN
       IF names = TypeError
       THEN /\ ret' = SerializerReturn("ChatSerializer.save", d, None, "TypeError", {})
            /\ UNCHANGED <<chats, seq>>
       ELSE IF "title" \notin DOMAIN d \/ to_internal_value("title", d.title) = <<>>
       THEN /\ ret' = SerializerReturn("ChatSerializer.save", d, None, "ValidationError", {})
            /\ UNCHANGED <<chats, seq>>
       ELSE LET id == IF "id" \in names /\ "id" \in DOMAIN d THEN d.id ELSE seq.chat + 1
            IN /\ chats' = chats @@ (id :> [title |-> to_internal_value("title", d.title),
                                            members |-> {}])
               /\ seq' = [seq EXCEPT !.chat = id]
               /\ ret' = SerializerReturn("ChatSerializer.save", d, id, "", names)
    /\ UNCHANGED <<users, profiles, tokens, messages, posts, req, nreq>>

\* ChatSerializer(instance=chat).data
ChatSerializer_data(chat) ==
    /\ chat \in Ids(chats)
    /\ LET names == get_field_names(ChatSerializer_Meta_exclude) IN
       IF names = TypeError
       THEN ret' = SerializerReturn("ChatSerializer.data", <<>>, chat, "TypeError", {})
       ELSE ret' = SerializerReturn("ChatSerializer.data", <<>>, chat, "", names)
    /\ UNCHANGED <<store, req, nreq>>

-----------------------------------------------------------------------------
(* The view set's requests, handled one after the other over a store that *)
(* direct store operations have filled                                     *)

\* the payloads with chat, title and content: a chat that is null, the first
\* Chat or none, a title that is blank or not
CompletePostPayloads ==
    [chat : {Null, 1, 9}, title : {<<>>, <<"U">>}, content : {<<"D">>}]

\* the payloads a valid create can be made with
ValidPostPayloads == {d \in CompletePostPayloads : d.chat = 1 /\ d.title # <<>>}

\* the payloads of create and update: the complete ones, the valid ones with
\* one key left out, those of one key, the empty one, and some of them with
\* the keys author and created_at on top
PostPayloads ==
    LET one_out == {without(d, f) : d \in ValidPostPayloads, f \in PostSerializer_writable}
        one_key == {[chat |-> Null], [title |-> <<"U">>], [content |-> <<"D">>]}
        empty == {<<>>}
        read_only == [author |-> 2, created_at |-> 99]
    IN CompletePostPayloads \cup one_out \cup one_key \cup empty
       \cup {d @@ read_only : d \in ValidPostPayloads \cup {[title |-> <<"U">>]}}

PostPks == {1, 9}

\* the requests come from nobody or from the first User
Callers == {AnonymousUser, 1}

\* the usernames of the Users the store is filled with, in order
FilledUsernames == <<(<<"a">>), (<<"b">>)>>

ChatPayloads == {[title |-> <<"T">>], [title |-> <<"T">>, id |-> 9], [title |-> <<>>]}

\* the store is filled before the first request, with MaxFilled rows at most
Filling == nreq = 0 /\ seq.user + seq.chat + seq.post < MaxFilled

NextPosts ==
    \/ Filling /\ \E n \in DOMAIN FilledUsernames :
                     n = seq.user + 1 /\ create_user(FilledUsernames[n], <<"p">>)
    \/ Filling /\ \E t \in Titles : Chat_create(t)
    \/ Filling /\ \E chat \in ChatIds \cup {None}, author \in UserIds :
                     Post_create(chat, author, <<"T">>, <<"C">>)
    \/ \E action \in Actions, user \in Callers, pk \in PostPks, d \in ValidPostPayloads :
          PostViewSet_permission_denied(Client, action, user, pk, d)
    \/ \E user \in Callers : PostViewSet_list(Client, user)
    \/ \E user \in Callers, pk \in PostPks : PostViewSet_retrieve(Client, user, pk)
    \/ \E user \in Callers, d \in PostPayloads : PostViewSet_create(Client, user, d)
    \/ perform_create(Client)
    \/ \E user \in Callers, pk \in PostPks, d \in PostPayloads, partial \in BOOLEAN :
          PostViewSet_update(Client, user, pk, d, partial)
    \/ perform_update(Client)
    \/ \E user \in Callers, pk \in PostPks : PostViewSet_destroy(Client, user, pk)

SpecPosts == Init /\ [][NextPosts]_vars

\* the uses of ChatSerializer, over a store of Users and Chats
NextChats ==
    \/ \E username \in CreatedUsernames : create_user(username, <<"p">>)
    \/ \E t \in Titles : Chat_create(t)
    \/ \E chat \in ChatIds, user \in UserIds : members_add(chat, user)
    \/ \E chat \in ChatIds : Chat_delete(chat)
    \/ \E d \in ChatPayloads : ChatSerializer_save(d)
    \/ \E chat \in ChatIds : ChatSerializer_data(chat)

SpecChats == Init /\ [][NextChats]_vars

-----------------------------------------------------------------------------
(* Properties of the view set of Posts *)

\* connection c receives a request to the view set from an authenticated user
ReceivedFromUser(c) ==
    Received(c) /\ req'[c].kind \in Actions /\ req'[c].user # AnonymousUser

\* the chat of payload d is an id that no Chat has
MissingChat(d) == "chat" \in DOMAIN d /\ d.chat # Null /\ d.chat \notin Ids(chats)

\* the request of connection c ends at this step in a 400 with an error on
\* the chat field, the Posts as they were
RejectedForChat(c) ==
    /\ req'[c].pc = "done"
    /\ req'[c].resp.status = 400 /\ "chat" \in req'[c].resp.fields
    /\ posts' = posts

\* C11 as stated: every create, full update and partial update of a Post whose
\* payload names a chat that no Chat has is rejected with 400 and an error on
\* the chat field; no Post is created and none is changed.
C11_AnyMissingChatRejected ==
    [][\A c \in Conns :
        (/\ Received(c)
         /\ req'[c].kind \in {"create", "update", "partial_update"}
         /\ MissingChat(req'[c].data))
        => RejectedForChat(c)]_vars

\* C11 amended: every create by an authenticated user, and every full or
\* partial update of an existing Post by an authenticated user, whose payload
\* names a chat that no Chat has is rejected with 400 and an error on the chat
\* field; no Post is created and none is changed.
C11_MissingChatRejected ==
    [][\A c \in Conns :
        (/\ ReceivedFromUser(c)
         /\ \/ req'[c].kind = "create"
            \/ req'[c].kind \in {"update", "partial_update"} /\ req'[c].pk \in Ids(posts)
         /\ MissingChat(req'[c].data))
        => RejectedForChat(c)]_vars

\* a partial update that names only a chat, one that no Chat has, has been
\* rejected for it, the Post still in a Chat
C11_Witness ==
    \E c \in Conns :
        /\ req[c].kind = "partial_update" /\ req[c].pc = "done"
        /\ req[c].resp.status = 400 /\ req[c].resp.fields = {"chat"}
        /\ req[c].pk \in Ids(posts) /\ posts[req[c].pk].chat \in Ids(chats)
        /\ req[c].data.chat \notin Ids(chats)

\* C12: every request to the list, retrieve, create, update, partial-update
\* or delete endpoint of Posts that comes from nobody is answered 401, and the
\* Posts are after it what they were before it.
C12_Unauthenticated ==
    [][\A c \in Conns :
        (Received(c) /\ req'[c].kind \in Actions /\ req'[c].user = AnonymousUser)
        => /\ req'[c].pc = "done"
           /\ req'[c].resp.status = 401
           /\ posts' = posts]_vars

\* a delete of an existing Post that comes from nobody has been answered 401
C12_Witness ==
    \E c \in Conns :
        /\ req[c].kind = "destroy" /\ req[c].pc = "done"
        /\ req[c].user = AnonymousUser
        /\ req[c].resp.status = 401
        /\ req[c].pk \in Ids(posts)

\* payload d has field f, not blank
HasText(d, f) == f \in DOMAIN d /\ strip(d[f]) # <<>>

\* the step of connection c adds one Post, authored by the requesting user,
\* and answers 201 with it
CreatedByCaller(c) ==
    /\ req'[c].pc = "done" /\ req'[c].resp.status = 201
    /\ \E p \in Ids(posts') \ Ids(posts) :
          /\ Without(posts', posts, {p})
          /\ posts'[p].author = req[c].user
          /\ req'[c].resp.body.id = p
          /\ req'[c].resp.body.author = req[c].user

\* C13 as stated: every create by an authenticated user with a valid title and
\* content returns 201 and adds exactly one Post, whose author, stored and in
\* the response, is the requesting user, whatever author the payload names.
C13_AnyCreateByCaller ==
    [][\A c \in Conns :
        /\ (/\ ReceivedFromUser(c) /\ req'[c].kind = "create"
            /\ HasText(req'[c].data, "title") /\ HasText(req'[c].data, "content"))
           => req'[c].pc = "perform_create" /\ posts' = posts
        /\ (Handled(c) /\ req[c].pc = "perform_create") => CreatedByCaller(c)]_vars

\* C13 amended: as stated, for the creates whose payload names no chat, null
\* or an existing Chat.
C13_CreateByCaller ==
    [][\A c \in Conns :
        /\ (/\ ReceivedFromUser(c) /\ req'[c].kind = "create"
            /\ HasText(req'[c].data, "title") /\ HasText(req'[c].data, "content")
            /\ ~MissingChat(req'[c].data))
           => req'[c].pc = "perform_create" /\ posts' = posts
        /\ (Handled(c) /\ req[c].pc = "perform_create") => CreatedByCaller(c)]_vars

\* a create whose payload names another User as author has added a Post of the
\* requesting user
C13_Witness ==
    \E c \in Conns :
        /\ req[c].kind = "create" /\ req[c].pc = "done" /\ req[c].resp.status = 201
        /\ "author" \in DOMAIN req[c].data
        /\ req[c].data.author \in Ids(users) \ {req[c].user}
        /\ req[c].resp.body.id \in Ids(posts)
        /\ posts[req[c].resp.body.id].author = req[c].user

\* the step of connection c is the write of an update
Updates(c) == Handled(c) /\ req[c].pc = "perform_update"

\* C14: an update changes only the writable fields its payload supplies: over
\* any sequence of full and partial updates no Post's author or created_at
\* changes, and an update leaves every field its payload omits, and every other
\* Post, as it was.
C14_UpdateFrame ==
    [][/\ \A p \in Ids(posts) \cap Ids(posts') :
             /\ posts'[p].author = posts[p].author
             /\ posts'[p].created_at = posts[p].created_at
       /\ \A c \in Conns :
             Updates(c)
             => /\ Ids(posts') = Ids(posts)
                /\ \A p \in Ids(posts) \ {req[c].pk} : posts'[p] = posts[p]
                /\ \A f \in PostSerializer_writable \ DOMAIN req[c].data :
                      posts'[req[c].pk][f] = posts[req[c].pk][f]]_vars

\* a partial update that names a title, another author and a created_at has
\* set the title of a Post of a Chat and left its chat, content, author and
\* created_at
C14_Witness ==
    \E c \in Conns :
        /\ req[c].kind = "partial_update" /\ req[c].pc = "done"
        /\ req[c].resp.status = 200
        /\ DOMAIN req[c].data = {"title", "author", "created_at"}
        /\ LET p == posts[req[c].pk]
           IN /\ p.title = req[c].data.title
              /\ p.author # req[c].data.author
              /\ p.created_at # req[c].data.created_at
              /\ p.chat # None /\ p.content # <<>>

\* the payload of a full (partial = FALSE) or partial update that validation
\* accepts: title and content not blank, and there unless the update is
\* partial; the chat null or an existing Chat
ValidUpdate(d, partial) ==
    /\ \A f \in {"title", "content"} : IF f \in DOMAIN d THEN HasText(d, f) ELSE partial
    /\ ~MissingChat(d)

\* C15: no ownership check: for every authenticated user and every existing
\* Post, of that user or of another, a valid update returns 200 and is applied
\* and a delete returns 204 and removes the Post.
C15_NoOwnershipCheck ==
    [][\A c \in Conns :
        /\ (/\ ReceivedFromUser(c)
            /\ req'[c].kind \in {"update", "partial_update"}
            /\ req'[c].pk \in Ids(posts)
            /\ ValidUpdate(req'[c].data, req'[c].kind = "partial_update"))
           => req'[c].pc = "perform_update"
        /\ Updates(c)
           => /\ req'[c].pc = "done" /\ req'[c].resp.status = 200
              /\ \A f \in PostSerializer_writable \cap DOMAIN req[c].data :
                    posts'[req[c].pk][f]
                       = IF f = "chat" THEN req[c].data[f] ELSE strip(req[c].data[f])
        /\ (/\ ReceivedFromUser(c)
            /\ req'[c].kind = "destroy"
            /\ req'[c].pk \in Ids(posts))
           => /\ req'[c].pc = "done" /\ req'[c].resp.status = 204
              /\ req'[c].pk \notin Ids(posts')]_vars

\* a full update of another User's Post has returned 200, the Post changed
C15_Witness ==
    \E c \in Conns :
        /\ req[c].kind = "update" /\ req[c].pc = "done" /\ req[c].resp.status = 200
        /\ posts[req[c].pk].author # req[c].user
        /\ posts[req[c].pk].title = req[c].data.title

\* C16: an authenticated delete of an existing Post returns 204 and removes
\* that Post and no other, the Chats and Users as they were; an authenticated
\* retrieve or delete of an id that names no Post returns 404 and changes
\* nothing.
C16_DeleteAndNotFound ==
    [][\A c \in Conns :
        /\ (/\ ReceivedFromUser(c)
            /\ req'[c].kind = "destroy"
            /\ req'[c].pk \in Ids(posts))
           => /\ req'[c].pc = "done" /\ req'[c].resp.status = 204
              /\ Without(posts, posts', {req'[c].pk})
              /\ chats' = chats /\ users' = users
        /\ (/\ ReceivedFromUser(c)
            /\ req'[c].kind \in {"retrieve", "destroy"}
            /\ req'[c].pk \notin Ids(posts))
           => /\ req'[c].pc = "done" /\ req'[c].resp.status = 404
              /\ store' = store]_vars

\* a delete has returned 204: its Post is gone, another Post of the same
\* author is left, and so is a Chat
C16_Witness ==
    \E c \in Conns :
        /\ req[c].kind = "destroy" /\ req[c].pc = "done" /\ req[c].resp.status = 204
        /\ req[c].pk \notin Ids(posts)
        /\ \E p \in Ids(posts) : posts[p].author = req[c].user
        /\ chats # <<>>

-----------------------------------------------------------------------------
(* Properties of the serializer of Chats *)

\* C17: the serializer of Chats accepts a payload with a title that is not
\* blank and creates a Chat, under an identifier that no Chat has and that is
\* not taken from an id in the payload; the representation of a Chat has title
\* and members and no id.
C17_ChatSerializer ==
    [][/\ (/\ ret' # ret
           /\ ret'.op = "ChatSerializer.save"
           /\ HasText(ret'.given, "title"))
          => /\ ret'.raised = ""
             /\ ret'.id \in Ids(chats') \ Ids(chats)
             /\ chats'[ret'.id].title = strip(ret'.given.title)
             /\ ret'.id = seq'.chat /\ seq'.chat > seq.chat
       /\ (ret' # ret /\ ret'.op = "ChatSerializer.data")
          => ret'.raised = "" /\ ret'.data = {"title", "members"}]_vars

-----------------------------------------------------------------------------
(* The view set's requests handled concurrently, one per connection, while *)
(* Chats and Users are deleted                                             *)

\* the payloads of the concurrent creates and updates: title and content
\* valid, the chat null or the first Chat
RacingPostPayloads == {d \in CompletePostPayloads : d.chat \in {Null, 1} /\ d.title # <<>>}

\* the callers of the concurrent requests: the authenticated ones
RacingCallers == Callers \ {AnonymousUser}

NextPostsConc ==
    \/ Filling /\ seq.user = 0 /\ create_user(FilledUsernames[1], <<"p">>)
    \/ Filling /\ seq.chat = 0 /\ \E t \in Titles : Chat_create(t)
    \/ Filling /\ \E chat \in ChatIds \cup {None}, author \in UserIds :
                     Post_create(chat, author, <<"T">>, <<"C">>)
    \/ Filling /\ seq.message = 0 /\ \E text \in Texts : Message_create(1, 1, text)
    \/ ~Filling /\ \E chat \in ChatIds : Chat_delete(chat)
    \/ ~Filling /\ \E user \in UserIds : User_delete(user)
    \/ \E c \in Conns, user \in RacingCallers :
          \/ \E d \in RacingPostPayloads : PostViewSet_create(c, user, d)
          \/ perform_create(c)
          \/ perform_create_IntegrityError(c)
          \/ \E d \in RacingPostPayloads : PostViewSet_update(c, user, 1, d, FALSE)
          \/ PostViewSet_update(c, user, 1, [title |-> <<"U">>], TRUE)
          \/ perform_update(c)
          \/ perform_update_IntegrityError(c)
          \/ PostViewSet_destroy(c, user, 1)

SpecPostsConc == Init /\ [][NextPostsConc]_vars

-----------------------------------------------------------------------------
(* Referential integrity under concurrent requests and deletes *)

\* C21: in every state reached by interleaved Post creates, updates and
\* deletes, Chat deletes and User deletes, every Post's author is an existing
\* User, every Post's chat is null or an existing Chat, and every Message's
\* chat and author are each null or existing
C21_ReferentialIntegrity ==
    /\ \A p \in Ids(posts) :
          /\ posts[p].author \in Ids(users)
          /\ posts[p].chat \in Ids(chats) \cup {None}
    /\ \A m \in Ids(messages) :
          /\ messages[m].chat \in Ids(chats) \cup {None}
          /\ messages[m].author \in Ids(users) \cup {None}

\* a create that named the Chat has been answered 500 after the Chat was
\* deleted, while a Post is stored and the Message has lost its chat
C21_Witness ==
    /\ \E c \in Conns :
          /\ req[c].kind = "create" /\ req[c].pc = "done"
          /\ req[c].resp.status = 500
          /\ "chat" \in DOMAIN req[c].data /\ req[c].data.chat # Null
          /\ req[c].data.chat \notin Ids(chats)
    /\ Ids(posts) # {}
    /\ \E m \in Ids(messages) : messages[m].chat = None

-----------------------------------------------------------------------------
(* Login after registration *)

\* s is u in another spelling: the same characters, whatever their case
Spelling(s, u) ==
    /\ Len(s) = Len(u)
    /\ \A i \in 1..Len(u) : lower(s[i]) = lower(u[i])

\* connection c, whose last request was a successful registration with the
\* username u and the password p, receives a login with username and password
LoginAfterRegistration(c) ==
    /\ Registered(c)
    /\ Received(c)
    /\ req'[c].kind = "login"
    /\ {"username", "password"} \subseteq DOMAIN req'[c].data

\* the login that connection c receives is taken for the User that its
\* registration created, whose Token is the one the registration returned
AcceptedAsRegistered(c) ==
    /\ req'[c].pc = "token_get"
    /\ req'[c].account = req[c].resp.user_id
    /\ token_of(req'[c].account) = req[c].resp.token

\* the accepted login of connection c is answered 200 with the User's Token
AnsweredWithToken(c) ==
    /\ req'[c].pc = "done"
    /\ req'[c].resp.status = 200
    /\ req'[c].resp.user_id = req[c].account
    /\ req'[c].resp.token = token_of(req[c].account)

\* C22: after a successful registration with the submitted username u and
\* password p, a login with the title-cased form of u and with p succeeds and
\* returns the token issued at registration, while a login with a spelling
\* of u that differs from its title-cased form is rejected with HTTP 400.
C22_LoginAsStored ==
    [][\A c \in Conns :
        /\ LoginAfterRegistration(c) =>
              LET u == req[c].data.username
                  p == req[c].data.password
                  d == req'[c].data
              IN /\ (d.username = title(u) /\ d.password = p) => AcceptedAsRegistered(c)
                 /\ (Spelling(d.username, u) /\ d.username # title(u))
                       => (req'[c].pc = "done" /\ req'[c].resp.status = 400)
        /\ (req[c].kind = "login" /\ req[c].pc = "token_get" /\ Handled(c)
            /\ token_of(req[c].account) # None) => AnsweredWithToken(c)]_vars

====
